---- MODULE Spec2Model ----
(***************************************************************************)
(* Model of jscatter/encodings.py: the pool of texture components          *)
(* (Component, Components), the registry of visual and data encodings      *)
(* (VisualEncoding, Encodings) and the legend builder (create_legend).     *)
(*                                                                         *)
(* Python values are modelled as follows.  None is the string "None".  A   *)
(* reference to a Component object is its index; an optional reference or  *)
(* an optional legend is a sequence of length at most one (<<>> is None).  *)
(* A dict is a function whose DOMAIN is the set of keys.  An operation     *)
(* that can raise is an operator returning the state it leaves behind      *)
(* together with result = "ok" or the name of the exception raised.        *)
(***************************************************************************)
EXTENDS Integers, Sequences, FiniteSets, TLC

VARIABLES total, reserved, components, data, visual, call

vars == <<total, reserved, components, data, visual, call>>

----------------------------------------------------------------------------
(* Bounds of the model *)

\* Largest total_components of a registry, and largest total of a pool used
\* on its own.
MaxTotalComponents == 2

MaxTotal == 3

NumChannels == 2

NumAttributes == 2

ChannelNames == <<"color", "size", "opacity", "connection_color", "connection_size">>

AttributeNames == <<"a", "b", "c", "d", "e">>

Channels == {ChannelNames[i] : i \in 1..NumChannels}

Attributes == {AttributeNames[i] : i \in 1..NumAttributes}

None == "None"

Absent == <<>>

Some(x) == <<x>>

Remove(f, k) == [x \in DOMAIN f \ {k} |-> f[x]]

Put(f, k, v) == [x \in DOMAIN f \cup {k} |-> IF x = k THEN v ELSE f[x]]

----------------------------------------------------------------------------
(* Component *)

NewComponent(index, isReserved) ==
    [index |-> index, reserved |-> isReserved, encoding |-> None, prepared |-> FALSE]

Used_ignoresReserved(component) == component.encoding # None

Used(component) == component.reserved \/ component.encoding # None

Store(component, encoding) == [component EXCEPT !.encoding = encoding]

Clear(component) == [component EXCEPT !.encoding = None, !.prepared = FALSE]

----------------------------------------------------------------------------
(* Components *)

NewComponents(t, r) == [i \in 0..(t - 1) |-> NewComponent(i, i < r)]

RECURSIVE SizeFrom(_, _)
SizeFrom(comps, i) ==
    IF i \notin DOMAIN comps THEN 0
    ELSE (IF Used(comps[i]) THEN 1 ELSE 0) + SizeFrom(comps, i + 1)

Size(comps) == SizeFrom(comps, 0)

Full_strict(comps, t) == Size(comps) > t

Full_early(comps, t) == Size(comps) >= t - 1

Full(comps, t) == Size(comps) >= t

\* The for loops of Components.add and Components.delete visit the
\* components in insertion order 0, 1, ... and stop at the first match;
\* given for each index whether its component matches, Scan returns the
\* index of that first match, or -1 when the loop runs out.
RECURSIVE Scan(_, _)
Scan(matches, i) ==
    IF i \notin DOMAIN matches THEN -1
    ELSE IF matches[i] THEN i
    ELSE Scan(matches, i + 1)

AddIndex_lastFit(comps) ==
    LET free == {i \in DOMAIN comps : ~Used(comps[i])}
    IN IF free = {} THEN -1 ELSE CHOOSE i \in free : \A j \in free : j <= i

AddIndex(comps) == Scan([i \in DOMAIN comps |-> ~Used(comps[i])], 0)

Components_add(comps, t, encoding) ==
    IF ~Full(comps, t) /\ AddIndex(comps) >= 0
    THEN LET i == AddIndex(comps)
         IN [components |-> [comps EXCEPT ![i] = Store(comps[i], encoding)],
             ret |-> Some(i)]
    ELSE [components |-> comps, ret |-> Absent]

Components_delete(comps, encoding) ==
    LET i == Scan([j \in DOMAIN comps |-> comps[j].encoding = encoding], 0)
    IN IF i >= 0 THEN [comps EXCEPT ![i] = Clear(comps[i])] ELSE comps

----------------------------------------------------------------------------
(* create_legend *)

\* A Python sequence is indexed from 0 and a negative index counts from the
\* end; PyInRange says whether seq[i] raises no IndexError.
PyInRange(seq, i) == -Len(seq) <= i /\ i < Len(seq)

PyIndex(seq, i) == IF i >= 0 THEN seq[i + 1] ELSE seq[Len(seq) + i + 1]

\* np.linspace(0, 1, num) computes step = 1 / (num - 1) and the samples
\* k * step in binary64 arithmetic, and then stores the stop 1.0 as the last
\* sample; a single sample is the start 0.  A sample is kept as [num, den]:
\* the double it stands for is 0.0 when num = 0, 1.0 when num = den, and
\* fl(num * fl(1 / den)) otherwise.
Linspace(linspace_num) ==
    [k \in 1..linspace_num |->
        IF linspace_num = 1 THEN [num |-> 0, den |-> 1]
        ELSE [num |-> k - 1, den |-> linspace_num - 1]]

\* Binary64 arithmetic.  A positive double is [hi, lo, e]: its 53-bit
\* significand is hi * 2^26 + lo with 2^26 <= hi < 2^27 and 0 <= lo < 2^26,
\* and its value is the significand times 2^e.  The two halves keep every
\* intermediate result of the operations below under 2^31.
RECURSIVE Pow2(_)
Pow2(n) == IF n = 0 THEN 1 ELSE 2 * Pow2(n - 1)

HiBits == 27

LoBits == 26

RECURSIVE Log2Ceil(_, _)
Log2Ceil(d, p) == IF Pow2(p) >= d THEN p ELSE Log2Ceil(d, p + 1)

\* Rounding to the nearest double, ties to the even significand: hi and lo
\* are the first 53 bits of the exact value, guard is its next bit and
\* sticky says whether any later bit is set.
FlRound(hi, lo, e, guard, sticky) ==
    LET up == guard = 1 /\ (sticky \/ lo % 2 = 1)
        lo1 == IF up THEN lo + 1 ELSE lo
        hi1 == IF lo1 = Pow2(LoBits) THEN hi + 1 ELSE hi
    IN IF hi1 = Pow2(HiBits)
       THEN [hi |-> Pow2(HiBits - 1), lo |-> 0, e |-> e + 1]
       ELSE [hi |-> hi1, lo |-> lo1 % Pow2(LoBits), e |-> e]

\* 1 / d for an integer 1 <= d < 2^20: long division in five digits of 11
\* bits from the leading 1 of the quotient gives its first 55 bits, 53 for
\* the significand and 2 for the rounding.
FlRecip(d) ==
    LET p == Log2Ceil(d, 0)
        B == Pow2(11)
        r0 == Pow2(p - 1)
        q1 == (r0 * B) \div d
        r1 == (r0 * B) % d
        q2 == (r1 * B) \div d
        r2 == (r1 * B) % d
        q3 == (r2 * B) \div d
        r3 == (r2 * B) % d
        q4 == (r3 * B) \div d
        r4 == (r3 * B) % d
        q5 == (r4 * B) \div d
        r5 == (r4 * B) % d
    IN IF p = 0 THEN [hi |-> Pow2(HiBits - 1), lo |-> 0, e |-> -52]
       ELSE FlRound(q1 * Pow2(16) + q2 * Pow2(5) + q3 \div Pow2(6),
                    (q3 % Pow2(6)) * Pow2(20) + q4 * Pow2(9) + q5 \div 4,
                    -(p + 52),
                    (q5 \div 2) % 2,
                    q5 % 2 = 1 \/ r5 # 0)

\* The number of bits by which h exceeds the 27 bits of hi.
RECURSIVE Excess(_, _)
Excess(h, sh) ==
    IF h \div Pow2(sh) < Pow2(HiBits) THEN sh ELSE Excess(h, sh + 1)

\* x * k for a double x and an integer 1 <= k < 16: the exact product, of
\* up to 57 bits, rounded to 53.
FlMul(x, k) ==
    LET low == x.lo * k
        h == x.hi * k + low \div Pow2(LoBits)
        l == low % Pow2(LoBits)
        sh == Excess(h, 0)
        dropped == l % Pow2(sh)
    IN IF sh = 0 THEN [hi |-> h, lo |-> l, e |-> x.e]
       ELSE FlRound(h \div Pow2(sh),
                    (h % Pow2(sh)) * Pow2(LoBits - sh) + l \div Pow2(sh),
                    x.e + sh,
                    dropped \div Pow2(sh - 1),
                    dropped % Pow2(sh - 1) # 0)

\* math.floor of a double below 2^27
FlFloor(x) ==
    IF x.e + 53 <= 0 THEN 0 ELSE x.hi \div Pow2(HiBits - (x.e + 53))

\* floor((len(encoding) - 1) * s), the product being a binary64 product
SampleIndex(encoding, s) ==
    LET last == Len(encoding) - 1
    IN IF s.num = 0 \/ last = 0 THEN 0
       ELSE IF s.num = s.den THEN last
       ELSE IF last < 0 THEN -1
       ELSE FlFloor(FlMul(FlMul(FlRecip(s.den), s.num), last))

\* norm.inverse(s) of the externally supplied scale: here a linear scale over
\* the integer data values norm.vmin .. norm.vmax.
NormInverse(norm, s) == norm.vmin + (s.num * (norm.vmax - norm.vmin)) \div s.den

\* dict.get(key): a dict of categories is the sequence of its items
\* <<category, index>> in insertion order.
RECURSIVE ItemsGet(_, _, _)
ItemsGet(items, key, n) ==
    IF n = 0 THEN Absent
    ELSE IF items[n][1] = key THEN Some(items[n][2])
    ELSE ItemsGet(items, key, n - 1)

CategoriesGet(categories, cat) == ItemsGet(categories, cat, Len(categories))

\* cat_by_idx = { catIdx: cat for cat, catIdx in categories.items() }:
\* the category inserted last under an index is the one kept.
RECURSIVE CatByIdxGet(_, _, _)
CatByIdxGet(categories, idx, n) ==
    IF n = 0 THEN Absent
    ELSE IF categories[n][2] = idx THEN Some(categories[n][1])
    ELSE CatByIdxGet(categories, idx, n - 1)

CatByIdx_insertionOrder(categories, idx) ==
    IF idx + 1 \in DOMAIN categories THEN Some(categories[idx + 1][1]) ELSE Absent

CatByIdx(categories, idx) == CatByIdxGet(categories, idx, Len(categories))

CatByIdxLen(categories) ==
    Cardinality({categories[n][2] : n \in 1..Len(categories)})

LabelingGet(labeling, key) ==
    IF key \in DOMAIN labeling THEN labeling[key] ELSE None

\* idxs: range(len(cat_by_idx)), or map(categories.get, category_order)
Idxs(categories, category_order) ==
    IF category_order = Absent
    THEN [k \in 1..CatByIdxLen(categories) |-> Some(k - 1)]
    ELSE [k \in 1..Len(category_order[1]) |->
            CategoriesGet(categories, category_order[1][k])]

CategoricalValues(encoding, categories, category_order) ==
    LET idxs == Idxs(categories, category_order)
        Bad(k) == \/ idxs[k] = Absent
                  \/ CatByIdx(categories, idxs[k][1]) = Absent
                  \/ ~PyInRange(encoding, idxs[k][1])
        Raises(k) == IF idxs[k] = Absent \/ CatByIdx(categories, idxs[k][1]) = Absent
                     THEN "KeyError" ELSE "IndexError"
    IN IF \E k \in DOMAIN idxs : Bad(k)
       THEN LET k == CHOOSE x \in DOMAIN idxs :
                        Bad(x) /\ \A y \in DOMAIN idxs : Bad(y) => x <= y
            IN [result |-> Raises(k), values |-> <<>>]
       ELSE [result |-> "ok",
             values |-> [k \in DOMAIN idxs |->
                           <<CatByIdx(categories, idxs[k][1])[1],
                             PyIndex(encoding, idxs[k][1]),
                             None>>]]

\* (*values[i][0:2], caption): the entry with its override caption replaced
WithOverride_keepsOld(entry, caption) == entry

WithOverride(entry, caption) == <<entry[1], entry[2], caption>>

ContinuousValues(encoding, norm, labeling, linspace_num) ==
    LET samples == Linspace(linspace_num)
        n == Len(samples)
        plain == [k \in 1..n |->
                    <<NormInverse(norm, samples[k]),
                      PyIndex(encoding, SampleIndex(encoding, samples[k])),
                      None>>]
        first == [plain EXCEPT ![1] =
                    WithOverride(plain[1], LabelingGet(labeling, "minValue"))]
        last == [first EXCEPT ![n] =
                    WithOverride(first[n], LabelingGet(labeling, "maxValue"))]
    IN IF linspace_num < 0 THEN [result |-> "ValueError", values |-> <<>>]
       ELSE IF \E k \in 1..n : ~PyInRange(encoding, SampleIndex(encoding, samples[k]))
       THEN [result |-> "IndexError", values |-> <<>>]
       ELSE IF DOMAIN labeling = {} THEN [result |-> "ok", values |-> plain]
       ELSE IF n = 0 THEN [result |-> "IndexError", values |-> <<>>]
       ELSE [result |-> "ok", values |-> last]

\* `if categories:` with categories None (Absent) or a dict (Some of its
\* items): None and the empty dict are both false.
Truthy(categories) == categories # Absent /\ Len(categories[1]) > 0

create_legend(encoding, norm, categories, labeling, linspace_num, category_order) ==
    LET variable == IF DOMAIN labeling # {} THEN LabelingGet(labeling, "variable")
                    ELSE None
        r == IF Truthy(categories)
             THEN IF Len(categories[1]) # Len(encoding)
                  THEN [result |-> "AssertionError", values |-> <<>>]
                  ELSE CategoricalValues(encoding, categories[1], category_order)
             ELSE ContinuousValues(encoding, norm, labeling, linspace_num)
    IN [result |-> r.result,
        ret |-> [variable |-> variable, values |-> r.values]]

----------------------------------------------------------------------------
(* VisualEncoding and Encodings *)

VisualEncoding(channel, data_enc) ==
    [channel |-> channel, data |-> data_enc, legend |-> Absent]

\* sum([... for v in self.visual.values()]): flags gives for each key of
\* self.visual the Boolean computed for its value; True counts 1.
RECURSIVE SumOver(_, _)
SumOver(flags, keys) ==
    IF keys = {} THEN 0
    ELSE LET k == CHOOSE x \in keys : TRUE
         IN (IF flags[k] THEN 1 ELSE 0) + SumOver(flags, keys \ {k})

Encodings_is_unique_never(vis, visual_enc) == FALSE

Encodings_is_unique_atLeastOne(vis, visual_enc) ==
    IF visual_enc \notin DOMAIN vis THEN FALSE
    ELSE SumOver([k \in DOMAIN vis |-> vis[k].data = vis[visual_enc].data],
                 DOMAIN vis) >= 1

Encodings_is_unique(vis, visual_enc) ==
    IF visual_enc \notin DOMAIN vis THEN FALSE
    ELSE SumOver([k \in DOMAIN vis |-> vis[k].data = vis[visual_enc].data],
                 DOMAIN vis) = 1

\* `v == data_enc` at line 166 compares a VisualEncoding with a str.  The
\* dataclass __eq__ returns NotImplemented for an operand of another class,
\* so does str.__eq__, and Python falls back to identity: always False.
VisualEncodingEqStr(v, data_enc) == FALSE

Encodings_delete_unguarded(st, visual_enc) ==
    IF visual_enc \notin DOMAIN st.visual
    THEN [st EXCEPT !.result = "KeyError"]
    ELSE LET data_enc == st.visual[visual_enc].data
             vis1 == Remove(st.visual, visual_enc)
             eq == [k \in DOMAIN vis1 |-> VisualEncodingEqStr(vis1[k], data_enc)]
         IN IF SumOver(eq, DOMAIN vis1) = 0
            THEN LET comps1 == Components_delete(st.components, data_enc)
                 IN IF data_enc \in DOMAIN st.data
                    THEN [visual |-> vis1, data |-> Remove(st.data, data_enc),
                          components |-> comps1, result |-> "ok"]
                    ELSE [visual |-> vis1, data |-> st.data,
                          components |-> comps1, result |-> "KeyError"]
            ELSE [visual |-> vis1, data |-> st.data,
                  components |-> st.components, result |-> "ok"]

Encodings_delete(st, visual_enc) ==
    IF visual_enc \notin DOMAIN st.visual
    THEN [st EXCEPT !.result = "ok"]
    ELSE LET data_enc == st.visual[visual_enc].data
             vis1 == Remove(st.visual, visual_enc)
             eq == [k \in DOMAIN vis1 |-> VisualEncodingEqStr(vis1[k], data_enc)]
         IN IF SumOver(eq, DOMAIN vis1) = 0
            THEN LET comps1 == Components_delete(st.components, data_enc)
                 IN IF data_enc \in DOMAIN st.data
                    THEN [visual |-> vis1, data |-> Remove(st.data, data_enc),
                          components |-> comps1, result |-> "ok"]
                    ELSE [visual |-> vis1, data |-> st.data,
                          components |-> comps1, result |-> "KeyError"]
            ELSE [visual |-> vis1, data |-> st.data,
                  components |-> st.components, result |-> "ok"]

\* Encodings.set.  The assert at line 125 is executed (the interpreter runs
\* without -O) and raises AssertionError; an exception raised by the delete
\* of the first step leaves set at once, with what delete had done by then.
InData_never(dat, data_enc) == FALSE

InData(dat, data_enc) == data_enc \in DOMAIN dat

Encodings_set(st, t, visual_enc, data_enc) ==
    LET s1 == IF Encodings_is_unique(st.visual, visual_enc)
              THEN Encodings_delete(st, visual_enc)
              ELSE [st EXCEPT !.result = "ok"]
    IN IF s1.result # "ok" THEN s1
       ELSE IF ~InData(s1.data, data_enc)
       THEN IF Full(s1.components, t)
            THEN [s1 EXCEPT !.result = "AssertionError"]
            ELSE LET r == Components_add(s1.components, t, data_enc)
                 IN [visual |-> Put(s1.visual, visual_enc,
                                    VisualEncoding(visual_enc, data_enc)),
                     data |-> Put(s1.data, data_enc, r.ret),
                     components |-> r.components,
                     result |-> "ok"]
       ELSE [s1 EXCEPT !.visual = Put(s1.visual, visual_enc,
                                      VisualEncoding(visual_enc, data_enc))]

Encodings_get(st, visual_enc) ==
    IF visual_enc \in DOMAIN st.visual
    THEN LET data_enc == st.visual[visual_enc].data
         IN IF data_enc \in DOMAIN st.data
            THEN [result |-> "ok", ret |-> st.data[data_enc]]
            ELSE [result |-> "KeyError", ret |-> Absent]
    ELSE [result |-> "ok", ret |-> Absent]

Encodings_get_legend(st, visual_enc) ==
    IF visual_enc \in DOMAIN st.visual
    THEN st.visual[visual_enc].legend
    ELSE Absent

Encodings_set_legend_shared(st, visual_enc, args) ==
    IF visual_enc \in DOMAIN st.visual
    THEN LET r == create_legend(args.encoding, args.norm, args.categories,
                                args.labeling, args.linspace_num, args.category_order)
         IN IF r.result = "ok"
            THEN [st EXCEPT !.visual =
                    [c \in DOMAIN st.visual |->
                        IF st.visual[c].data = st.visual[visual_enc].data
                        THEN [st.visual[c] EXCEPT !.legend = Some(r.ret)]
                        ELSE st.visual[c]]]
            ELSE [st EXCEPT !.result = r.result]
    ELSE [st EXCEPT !.result = "ok"]

Encodings_set_legend(st, visual_enc, args) ==
    IF visual_enc \in DOMAIN st.visual
    THEN LET r == create_legend(args.encoding, args.norm, args.categories,
                                args.labeling, args.linspace_num, args.category_order)
         IN IF r.result = "ok"
            THEN [st EXCEPT !.visual[visual_enc].legend = Some(r.ret)]
            ELSE [st EXCEPT !.result = r.result]
    ELSE [st EXCEPT !.result = "ok"]

----------------------------------------------------------------------------
(* State machine of the registry: Encodings over its own Components *)

St == [visual |-> visual, data |-> data, components |-> components, result |-> "ok"]

\* The legend requests made of the registry: a categorical legend in an
\* explicit category order, and a categorical request whose sizes disagree.
LegendArgs ==
    { [encoding |-> <<1, 9>>, norm |-> [vmin |-> 0, vmax |-> 0],
       categories |-> Some(<< <<10, 0>>, <<11, 1>> >>), labeling |-> <<>>,
       linspace_num |-> 5, category_order |-> Some(<<11, 10>>)],
      [encoding |-> <<1, 9, 5>>, norm |-> [vmin |-> 0, vmax |-> 0],
       categories |-> Some(<< <<10, 0>>, <<11, 1>> >>), labeling |-> <<>>,
       linspace_num |-> 5, category_order |-> Absent] }

\* call records the last call made: the operation, its arguments, the data
\* encoding its visual encoding had when it was made (prev), how it ended
\* (result) and what it returned (ret).
Call(op, visual_enc, data_enc, prev, result, ret) ==
    [op |-> op, visual_enc |-> visual_enc, data_enc |-> data_enc, prev |-> prev,
     result |-> result, ret |-> ret]

Prev(visual_enc) ==
    IF visual_enc \in DOMAIN visual THEN visual[visual_enc].data ELSE None

Init ==
    /\ total \in 0..MaxTotalComponents
    /\ reserved \in 0..total
    /\ components = NewComponents(total, reserved)
    /\ data = <<>>
    /\ visual = <<>>
    /\ call = Call("init", None, None, None, "ok", Absent)

set(visual_enc, data_enc) ==
    LET r == Encodings_set(St, total, visual_enc, data_enc)
    IN /\ visual' = r.visual
       /\ data' = r.data
       /\ components' = r.components
       /\ call' = Call("set", visual_enc, data_enc, Prev(visual_enc), r.result, Absent)
       /\ UNCHANGED <<total, reserved>>

get(visual_enc) ==
    LET r == Encodings_get(St, visual_enc)
    IN /\ call' = Call("get", visual_enc, None, Prev(visual_enc), r.result, r.ret)
       /\ UNCHANGED <<total, reserved, components, data, visual>>

get_legend(visual_enc) ==
    /\ call' = Call("get_legend", visual_enc, None, Prev(visual_enc), "ok",
                    Encodings_get_legend(St, visual_enc))
    /\ UNCHANGED <<total, reserved, components, data, visual>>

set_legend(visual_enc, args) ==
    LET r == Encodings_set_legend(St, visual_enc, args)
    IN /\ visual' = r.visual
       /\ call' = Call("set_legend", visual_enc, None, Prev(visual_enc), r.result, Absent)
       /\ UNCHANGED <<total, reserved, components, data>>

delete(visual_enc) ==
    LET r == Encodings_delete(St, visual_enc)
    IN /\ visual' = r.visual
       /\ data' = r.data
       /\ components' = r.components
       /\ call' = Call("delete", visual_enc, None, Prev(visual_enc), r.result, Absent)
       /\ UNCHANGED <<total, reserved>>

is_unique(visual_enc) ==
    /\ call' = Call("is_unique", visual_enc, None, Prev(visual_enc), "ok",
                    Encodings_is_unique(visual, visual_enc))
    /\ UNCHANGED <<total, reserved, components, data, visual>>

Next ==
    \/ \E c \in Channels, a \in Attributes : set(c, a)
    \/ \E c \in Channels : get(c)
    \/ \E c \in Channels : get_legend(c)
    \/ \E c \in Channels, args \in LegendArgs : set_legend(c, args)
    \/ \E c \in Channels : delete(c)
    \/ \E c \in Channels : is_unique(c)

Spec == Init /\ [][Next]_vars

----------------------------------------------------------------------------
(* State machine of the pool on its own: Components used directly *)

components_add(encoding) ==
    LET r == Components_add(components, total, encoding)
    IN /\ components' = r.components
       /\ call' = Call("components_add", None, encoding, None, "ok", r.ret)
       /\ UNCHANGED <<total, reserved, data, visual>>

components_delete(encoding) ==
    /\ components' = Components_delete(components, encoding)
    /\ call' = Call("components_delete", None, encoding, None, "ok", Absent)
    /\ UNCHANGED <<total, reserved, data, visual>>

components_size ==
    /\ call' = Call("components_size", None, None, None, "ok",
                    [size |-> Size(components), full |-> Full(components, total)])
    /\ UNCHANGED <<total, reserved, components, data, visual>>

InitPool ==
    /\ total \in 0..MaxTotal
    /\ reserved \in 0..total
    /\ components = NewComponents(total, reserved)
    /\ data = <<>>
    /\ visual = <<>>
    /\ call = Call("init", None, None, None, "ok", Absent)

NextPool ==
    \/ \E a \in Attributes : components_add(a)
    \/ \E a \in Attributes : components_delete(a)
    \/ components_size

SpecPool == InitPool /\ [][NextPool]_vars

----------------------------------------------------------------------------
(* State machine of the registry as built by default: Encodings() *)

\* total_components and reserved_components of Encodings.__init__
DefaultTotalComponents == 4

DefaultReservedComponents == 2

\* One visual channel and one data attribute more than the default registry
\* has room for.
CapacityChannels == {ChannelNames[i] : i \in 1..3}

CapacityAttributes == {AttributeNames[i] : i \in 1..3}

InitCapacity ==
    /\ total = DefaultTotalComponents
    /\ reserved = DefaultReservedComponents
    /\ components = NewComponents(total, reserved)
    /\ data = <<>>
    /\ visual = <<>>
    /\ call = Call("init", None, None, None, "ok", Absent)

NextCapacity ==
    \/ \E c \in CapacityChannels, a \in CapacityAttributes : set(c, a)
    \/ \E c \in CapacityChannels : get(c)
    \/ \E c \in CapacityChannels : get_legend(c)
    \/ \E c \in CapacityChannels, args \in LegendArgs : set_legend(c, args)
    \/ \E c \in CapacityChannels : delete(c)
    \/ \E c \in CapacityChannels : is_unique(c)

SpecCapacity == InitCapacity /\ [][NextCapacity]_vars

----------------------------------------------------------------------------
(* State machine of the legend builder: create_legend on drawn arguments *)

MaxCategories == 2

MaxLen == 8

MaxSamples == 8

\* linspace_num=5 of create_legend
DefaultLinspaceNum == 5

\* Category labels are the integers 10, 11, ...; so are the data values a
\* normalization maps to.
CategoryLabels == {9 + i : i \in 1..MaxCategories}

\* The dicts from category labels to indices, as their items in insertion
\* order: the keys of a dict are distinct, its values need not be.
Dicts ==
    {items \in UNION {[1..n -> CategoryLabels \X (0..(MaxCategories - 1))] :
                          n \in 0..MaxCategories} :
        \A i, j \in DOMAIN items : i # j => items[i][1] # items[j][1]}

CategoryOrders ==
    {Absent} \cup
    {Some(o) : o \in UNION {[1..n -> CategoryLabels] : n \in 0..MaxCategories}}

\* An encoding of length len whose value tells its index.
EncodedValues(len) == [i \in 1..len |-> 100 + i]

Norms == {[vmin |-> 0, vmax |-> 60], [vmin |-> 10, vmax |-> 20]}

Labelings ==
    { <<>>,
      [variable |-> "v", minValue |-> "low", maxValue |-> "high"],
      [variable |-> "v"],
      [minValue |-> "low"] }

\* The arguments create_legend is called with: calls with a dict of
\* categories, and calls with none or an empty one.
LegendInputs ==
    {[encoding |-> EncodedValues(len), norm |-> [vmin |-> 0, vmax |-> 60],
      categories |-> Some(d), labeling |-> <<>>,
      linspace_num |-> DefaultLinspaceNum, category_order |-> o] :
        len \in 0..(MaxCategories + 1), d \in Dicts, o \in CategoryOrders}
    \cup
    {[encoding |-> EncodedValues(len), norm |-> norm,
      categories |-> c, labeling |-> l,
      linspace_num |-> n, category_order |-> Absent] :
        len \in 0..MaxLen, norm \in Norms, c \in {Absent, Some(<<>>)},
        l \in Labelings, n \in 0..MaxSamples}

InitLegend ==
    /\ total = 0
    /\ reserved = 0
    /\ components = NewComponents(total, reserved)
    /\ data = <<>>
    /\ visual = <<>>
    /\ \E args \in LegendInputs :
          call = Call("init", None, None, None, "ok", [args |-> args])

legend_create ==
    /\ call.op = "init"
    /\ LET args == call.ret.args
           r == create_legend(args.encoding, args.norm, args.categories,
                              args.labeling, args.linspace_num, args.category_order)
       IN call' = Call("create_legend", None, None, None, r.result,
                       [args |-> args, legend |-> r.ret])
    /\ UNCHANGED <<total, reserved, components, data, visual>>

NextLegend == legend_create

SpecLegend == InitLegend /\ [][NextLegend]_vars

----------------------------------------------------------------------------
(* Vocabulary of the properties, stated over the state alone *)

Occupants == {components[i].encoding : i \in DOMAIN components} \ {None}

SlotsOf(a) == {i \in DOMAIN components : components[i].encoding = a}

Referencing(a) == {c \in DOMAIN visual : visual[c].data = a}

UsedSlots == {i \in DOMAIN components :
                components[i].reserved \/ components[i].encoding # None}

FreeSlots == DOMAIN components \ UsedSlots

UsedSlotsOf(comps) == {i \in DOMAIN comps :
                         comps[i].reserved \/ comps[i].encoding # None}

Lowest(S) == CHOOSE i \in S : \A j \in S : i <= j

----------------------------------------------------------------------------
(* C1 *)

\* C1: after delete(visualChannel) on a set channel, the Slot of the
\* channel's data attribute is freed and the attribute removed from
\* dataEncodings if and only if no other visual channel still references the
\* attribute: deleting one of two channels that share an attribute leaves the
\* Slot allocated.
C1_DeleteFreesIffUnreferenced ==
    (call.op = "delete" /\ call.prev # None) =>
        /\ (call.prev \in DOMAIN data) <=> (Referencing(call.prev) # {})
        /\ (SlotsOf(call.prev) # {}) <=> (Referencing(call.prev) # {})

----------------------------------------------------------------------------
(* C2 *)

\* C2: in every reachable state every data attribute referenced by a
\* VisualEncoding has an entry in dataEncodings.
C2_ReferencedAttributeHasData ==
    \A c \in DOMAIN visual : visual[c].data \in DOMAIN data

----------------------------------------------------------------------------
(* C3 *)

\* C3: get(c) returns absent if c is unset, and otherwise returns the Slot
\* whose occupant is c's current data attribute.
C3_GetReturnsSlotOfAttribute ==
    call.op = "get" =>
        IF call.visual_enc \notin DOMAIN visual
        THEN call.result = "ok" /\ call.ret = Absent
        ELSE /\ call.result = "ok"
             /\ call.ret # Absent
             /\ components[call.ret[1]].encoding = visual[call.visual_enc].data

----------------------------------------------------------------------------
(* C4 *)

\* C4: in every reachable state no two Slots have the same occupant, the keys
\* of dataEncodings are exactly the occupants of the Slots, and
\* dataEncodings[a] is the Slot whose occupant is a, however many visual
\* channels reference a.
C4_OneSlotPerAttribute ==
    /\ \A a \in Occupants : Cardinality(SlotsOf(a)) = 1
    /\ DOMAIN data = Occupants
    /\ \A a \in DOMAIN data : data[a] # Absent /\ SlotsOf(a) = {data[a][1]}

\* Two visual channels share one data attribute, which holds one Slot.
C4_Witness ==
    /\ call.op = "set" /\ call.result = "ok"
    /\ \E c \in DOMAIN visual :
          /\ c # call.visual_enc
          /\ visual[c].data = call.data_enc
    /\ Cardinality(SlotsOf(call.data_enc)) = 1

----------------------------------------------------------------------------
(* C5 *)

\* C5: in every reachable state every Slot recorded in dataEncodings is
\* marked used in the pool and its data attribute is referenced by at least
\* one entry of visualEncodings, also after a set that re-points a channel.
C5_NoOrphanedAllocation ==
    \A a \in DOMAIN data :
        /\ data[a] # Absent
        /\ data[a][1] \in UsedSlots
        /\ Referencing(a) # {}

\* A set has re-pointed a channel from one data attribute to another.
C5_Witness ==
    /\ call.op = "set" /\ call.result = "ok"
    /\ call.prev # None /\ call.prev # call.data_enc
    /\ call.prev \notin DOMAIN data
    /\ call.data_enc \in DOMAIN data

----------------------------------------------------------------------------
(* C6 *)

----------------------------------------------------------------------------
(* C7 *)

\* C7: whenever a call of set fails, visualEncodings (entry and legend of
\* the channel included), dataEncodings and every Slot are as before the
\* call.
C7_FailedSetChangesNothing ==
    [][(call'.op = "set" /\ call'.result # "ok")
         => (visual' = visual /\ data' = data /\ components' = components)]_vars

----------------------------------------------------------------------------
(* C8 *)

\* C8: allocate on a non-full pool stores the attribute in the lowest-index
\* Slot that is not used and returns that Slot, leaving all other Slots
\* unchanged; allocate on a full pool returns no Slot and changes nothing.
C8_FirstFitAllocation ==
    \A a \in Attributes :
        LET r == Components_add(components, total, a)
        IN IF Cardinality(UsedSlots) < total
           THEN /\ FreeSlots # {}
                /\ r.ret = Some(Lowest(FreeSlots))
                /\ r.components =
                     [components EXCEPT ![Lowest(FreeSlots)].encoding = a]
           ELSE r.ret = Absent /\ r.components = components

\* An allocation has reused a freed Slot below an occupied one while a
\* higher Slot was free as well.
C8_Witness ==
    /\ call.op = "components_add" /\ call.ret # Absent
    /\ \E j \in UsedSlots : j > call.ret[1]
    /\ \E k \in FreeSlots : k > call.ret[1]
    /\ components[call.ret[1]].encoding = call.data_enc

----------------------------------------------------------------------------
(* C9 *)

\* C9: for all capacities C and reserved counts R with 0 <= R <= C, Slots
\* 0..R-1 are reserved and reported used in every reachable state, are never
\* given an occupant by allocate nor made available by free, and Slots
\* R..C-1 are not reserved.
C9_ReservedSlots ==
    /\ DOMAIN components = 0..(total - 1)
    /\ \A i \in DOMAIN components :
          IF i < reserved
          THEN /\ components[i].reserved
               /\ Used(components[i])
               /\ components[i].encoding = None
          ELSE ~components[i].reserved

\* A pool with reserved Slots has allocated all its other Slots and then
\* freed one.
C9_Witness ==
    /\ reserved > 0 /\ total > reserved + 1
    /\ call.op = "components_delete"
    /\ Cardinality(FreeSlots) = 1
    /\ SlotsOf(call.data_enc) = {}

----------------------------------------------------------------------------
(* C10 *)

\* C10: isUnique(visualChannel) is true if and only if visualChannel is set
\* and it is the only VisualEncoding that references its data attribute;
\* it is false for an unset channel and for a channel that shares its
\* attribute, and a call of it changes no state.
C10_IsUnique ==
    /\ [](\A c \in Channels :
            Encodings_is_unique(visual, c) <=>
                (c \in DOMAIN visual /\ Referencing(visual[c].data) = {c}))
    /\ [](call.op = "is_unique" =>
            (call.ret <=> (call.visual_enc \in DOMAIN visual
                           /\ Referencing(visual[call.visual_enc].data)
                                = {call.visual_enc})))
    /\ [][call'.op = "is_unique"
            => (visual' = visual /\ data' = data /\ components' = components)]_vars

\* isUnique has answered false for a set channel that shares its attribute.
C10_Witness ==
    /\ call.op = "is_unique" /\ call.ret = FALSE
    /\ call.visual_enc \in DOMAIN visual
    /\ Cardinality(Referencing(visual[call.visual_enc].data)) = 2

----------------------------------------------------------------------------
(* C11 *)

\* The state after two distinct data attributes have been set on two
\* channels and the set of a third one on a further channel has failed.
ThirdAttributeRefused ==
    /\ call.op = "set" /\ call.result = "AssertionError"
    /\ call.visual_enc \notin DOMAIN visual
    /\ call.data_enc \notin DOMAIN data
    /\ Cardinality(DOMAIN visual) = 2
    /\ Cardinality({visual[c].data : c \in DOMAIN visual}) = 2
    /\ DOMAIN data = {visual[c].data : c \in DOMAIN visual}

\* C11 as stated: in a registry built with total=4 and reserved=2, after two
\* distinct data attributes have been set on two channels and the set of a
\* third on a further channel has failed with the capacity error, the pool's
\* size reports 2.
C11_SizeReportsTwo ==
    ThirdAttributeRefused => Size(components) = 2

\* C11 as amended: in that state the pool's size reports 4, the 2 reserved
\* Slots counting as used beside the 2 occupied ones; 2 is the number of
\* allocated data attributes.  No set fails for capacity at another size.
C11_SizeReportsTotal ==
    /\ ThirdAttributeRefused =>
          /\ Size(components) = 4
          /\ Cardinality(DOMAIN data) = 2
    /\ (call.op = "set" /\ call.result = "AssertionError") =>
          Size(components) = total

\* The third data attribute has just been refused.
C11_Witness ==
    /\ ThirdAttributeRefused
    /\ total = 4 /\ reserved = 2
    /\ Cardinality(Occupants) = 2

----------------------------------------------------------------------------
(* C12 *)

\* C12: setLegend on a set channel changes only that channel's legend:
\* every other channel's legend, every channel's association, dataEncodings
\* and all Slot occupants are unchanged.
C12_SetLegendChangesOneLegend ==
    \A c \in DOMAIN visual, args \in LegendArgs :
        LET r == Encodings_set_legend(St, c, args)
        IN /\ r.data = data
           /\ r.components = components
           /\ DOMAIN r.visual = DOMAIN visual
           /\ \A d \in DOMAIN visual \ {c} : r.visual[d] = visual[d]
           /\ r.visual[c].channel = visual[c].channel
           /\ r.visual[c].data = visual[c].data

\* setLegend has just given a legend to one of two channels that share a
\* data attribute, and the other channel has none.
C12_Witness ==
    /\ call.op = "set_legend" /\ call.result = "ok"
    /\ call.visual_enc \in DOMAIN visual
    /\ visual[call.visual_enc].legend # Absent
    /\ \E d \in DOMAIN visual \ {call.visual_enc} :
          /\ visual[d].data = visual[call.visual_enc].data
          /\ visual[d].legend = Absent

----------------------------------------------------------------------------
(* C13 *)

\* The registry's state without the outcome of the call that produced it.
Registry(st) == [visual |-> st.visual, data |-> st.data, components |-> st.components]

\* C13: delete, setLegend, getLegend and get on an unset channel, and the
\* pool's free for a data attribute that occupies no Slot, raise no error
\* and change nothing (get and getLegend return absent); delete of a channel
\* twice leaves the registry as delete of it once does.
C13_NoOpsOnUnset ==
    /\ \A c \in Channels \ DOMAIN visual :
          /\ Encodings_delete(St, c) = St
          /\ \A args \in LegendArgs : Encodings_set_legend(St, c, args) = St
          /\ Encodings_get(St, c) = [result |-> "ok", ret |-> Absent]
          /\ Encodings_get_legend(St, c) = Absent
    /\ \A a \in Attributes :
          SlotsOf(a) = {} => Components_delete(components, a) = components
    /\ \A c \in Channels :
          LET once == Encodings_delete(St, c)
              twice == Encodings_delete(once, c)
          IN /\ twice.result = "ok"
             /\ Registry(twice) = Registry(once)
    /\ (call.op \in {"delete", "set_legend", "get", "get_legend"}
            /\ call.prev = None) =>
          /\ call.result = "ok"
          /\ call.op \in {"get", "get_legend"} => call.ret = Absent

\* A channel has just been deleted a second time while another channel is
\* set and a Slot is occupied.
C13_Witness ==
    /\ call.op = "delete" /\ call.prev = None /\ call.result = "ok"
    /\ call.visual_enc \notin DOMAIN visual
    /\ visual # <<>>
    /\ Occupants # {}

----------------------------------------------------------------------------
(* C14 *)

\* The last call was create_legend; its arguments, and the legend it built.
Created == call.op = "create_legend"

Args == call.ret.args

Legend == call.ret.legend

\* The items of the dict of categories map its N >= 1 labels one-to-one
\* onto 0..N-1, the encoding has N values, and a category order names
\* labels of the dict only.
Categorical(args) ==
    /\ args.categories # Absent
    /\ LET items == args.categories[1]
           N == Len(items)
       IN /\ N >= 1
          /\ {items[i][2] : i \in 1..N} = 0..(N - 1)
          /\ Len(args.encoding) = N
          /\ args.category_order # Absent =>
                \A j \in DOMAIN args.category_order[1] :
                    \E i \in 1..N : items[i][1] = args.category_order[1][j]

\* The index the dict gives the label, and the label it gives the index.
IndexOf(items, label) == (CHOOSE i \in DOMAIN items : items[i][1] = label)

LabelAt(items, idx) == items[CHOOSE i \in DOMAIN items : items[i][2] = idx][1]

\* C14: in categorical mode, with categories mapping N labels one-to-one
\* onto 0..N-1 and N encoded values, the legend values are, without a
\* category order, (label of index i, encodedValues[i], absent) for i = 0..N-1
\* in ascending order, and with a category order, entry j is
\* (categoryOrder[j], encodedValues[categories[categoryOrder[j]]], absent).
C14_CategoricalValues ==
    (Created /\ Categorical(Args)) =>
        LET items == Args.categories[1]
            N == Len(items)
            order == Args.category_order
        IN /\ call.result = "ok"
           /\ order = Absent =>
                 Legend.values =
                    [k \in 1..N |->
                        <<LabelAt(items, k - 1), Args.encoding[k], None>>]
           /\ order # Absent =>
                 Legend.values =
                    [j \in 1..Len(order[1]) |->
                        <<order[1][j],
                          Args.encoding[items[IndexOf(items, order[1][j])][2] + 1],
                          None>>]

\* A legend was built in an explicit category order that differs from the
\* index order, from a dict whose insertion order differs from it too.
C14_Witness ==
    /\ Created /\ Categorical(Args) /\ call.result = "ok"
    /\ Args.category_order # Absent
    /\ Len(Args.categories[1]) = 2
    /\ Args.categories[1][1][2] = 1
    /\ Len(Legend.values) = 2
    /\ Legend.values[1][2] # Args.encoding[1]

----------------------------------------------------------------------------
(* C15 *)

\* C15: for every supplied categories mapping, of any size, zero entries
\* included, whose number of categories differs from the number of encoded
\* values, the construction of the legend fails with the size-mismatch
\* error and returns no legend.
C15_SizeMismatchFails ==
    (Created /\ Args.categories # Absent
             /\ Len(Args.categories[1]) # Len(Args.encoding)) =>
        /\ call.result = "AssertionError"
        /\ Legend.values = <<>>

----------------------------------------------------------------------------
(* C16 *)

\* The index floor((L - 1) * k / (n - 1)) of sample k = 0..n-1 of n, in
\* exact arithmetic.
ExactIndex(L, k, n) == ((L - 1) * k) \div (n - 1)

\* C16: in continuous mode (categories absent), with L >= 1 encoded values
\* and n >= 2 samples, the legend has exactly n entries and entry k = 0..n-1,
\* of fraction s = k / (n - 1), has the label normalization.inverse(s) and
\* the encoded value encodedValues[floor((L - 1) * s)]; so every sampled
\* index lies in 0..L-1, the indices do not decrease, the first is 0 and the
\* last is L - 1.
C16_ContinuousSamples ==
    (Created /\ Args.categories = Absent
             /\ Len(Args.encoding) >= 1 /\ Args.linspace_num >= 2) =>
        LET L == Len(Args.encoding)
            n == Args.linspace_num
        IN /\ call.result = "ok"
           /\ Len(Legend.values) = n
           /\ \A k \in 0..(n - 1) :
                 /\ Legend.values[k + 1][1] =
                       NormInverse(Args.norm, [num |-> k, den |-> n - 1])
                 /\ Legend.values[k + 1][2] =
                       Args.encoding[ExactIndex(L, k, n) + 1]

----------------------------------------------------------------------------
(* C17 *)

\* create_legend was called in continuous mode with a labeling, at least
\* one encoded value and at least one sample.
Labelled ==
    /\ Created
    /\ Args.categories = Absent
    /\ Args.labeling # <<>>
    /\ Len(Args.encoding) >= 1
    /\ Args.linspace_num >= 1

\* The values of the legend the same call builds without the labeling.
Unlabelled ==
    create_legend(Args.encoding, Args.norm, Args.categories, <<>>,
                  Args.linspace_num, Args.category_order).ret.values

\* No entry's (label, encoded value) pair is changed by the overrides, and
\* the entries between the first and the last have no override.
PairsKept ==
    /\ call.result = "ok"
    /\ Len(Legend.values) = Args.linspace_num
    /\ \A k \in 1..Len(Legend.values) :
          /\ Legend.values[k][1] = Unlabelled[k][1]
          /\ Legend.values[k][2] = Unlabelled[k][2]
          /\ (1 < k /\ k < Len(Legend.values)) => Legend.values[k][3] = None

\* C17 as stated: in continuous mode with labeling supplied, for every
\* sampleCount >= 1 the first entry's override caption is labeling.minValue
\* and the last entry's is labeling.maxValue, every other entry has none,
\* and no entry's (label, encoded value) pair is changed.
C17_OverridesForEverySampleCount ==
    Labelled =>
        /\ PairsKept
        /\ Legend.values[1][3] = LabelingGet(Args.labeling, "minValue")
        /\ Legend.values[Len(Legend.values)][3] =
              LabelingGet(Args.labeling, "maxValue")

\* C17 as amended: the same for every sampleCount >= 2; for sampleCount = 1
\* the single entry is the first and the last one, and its override caption
\* is labeling.maxValue, which is assigned last.
C17_OverridesAtEnds ==
    Labelled =>
        /\ PairsKept
        /\ Legend.values[Len(Legend.values)][3] =
              LabelingGet(Args.labeling, "maxValue")
        /\ Args.linspace_num >= 2 =>
              Legend.values[1][3] = LabelingGet(Args.labeling, "minValue")

\* A legend of one sample was built with a labeling whose minValue and
\* maxValue differ.
C17_Witness ==
    /\ Labelled /\ call.result = "ok"
    /\ Args.linspace_num = 1
    /\ LabelingGet(Args.labeling, "minValue") # LabelingGet(Args.labeling, "maxValue")
    /\ LabelingGet(Args.labeling, "maxValue") # None
    /\ Legend.values[1][3] = LabelingGet(Args.labeling, "maxValue")

----------------------------------------------------------------------------
(* C18 *)

\* The registry after set(c, a) for the data attribute a that channel c
\* references already.
Reset(c) == Encodings_set(St, total, c, visual[c].data)

\* C18 as stated: set(channel, a) where channel already references a is a
\* no-op on the pool: no Slot is freed or reallocated, every Slot keeps its
\* occupant, and a stays in the same Slot index.
C18_ResetIsNoOpOnPool ==
    \A c \in DOMAIN visual : Reset(c).components = components

\* C18 as amended: set(channel, a) where channel already references a and a
\* occupies a Slot changes no Slot but a's.  If another channel references
\* a too, the pool is unchanged.  If channel is the sole reference, the Slot
\* of a is freed and a is allocated again first-fit: a ends in exactly one
\* Slot, the lowest-indexed of the free Slots and its own, which is its own
\* unless a lower Slot is free.
C18_ResetReallocatesFirstFit ==
    \A c \in DOMAIN visual :
        LET a == visual[c].data
            r == Reset(c)
            after == {i \in DOMAIN r.components : r.components[i].encoding = a}
        IN SlotsOf(a) # {} =>
              /\ r.result = "ok"
              /\ \A i \in DOMAIN components :
                    i \notin SlotsOf(a) \cup after =>
                        r.components[i] = components[i]
              /\ Referencing(a) # {c} => r.components = components
              /\ Referencing(a) = {c} =>
                    /\ after = {Lowest(FreeSlots \cup SlotsOf(a))}
                    /\ \A i \in SlotsOf(a) \ after :
                          r.components[i] = Clear(components[i])

\* A channel that is the sole reference of its data attribute has just been
\* set to it again, and the attribute sits in the lowest Slot with a free
\* Slot above it.
C18_Witness ==
    /\ call.op = "set" /\ call.result = "ok"
    /\ call.prev = call.data_enc
    /\ Referencing(call.data_enc) = {call.visual_enc}
    /\ SlotsOf(call.data_enc) = {Lowest(FreeSlots \cup SlotsOf(call.data_enc))}
    /\ \E i \in FreeSlots : \A j \in SlotsOf(call.data_enc) : j < i

----------------------------------------------------------------------------
(* C19 *)

\* C19: if a channel is the sole channel referencing data attribute A and
\* set(channel, B) is called with B # A not yet allocated, the call succeeds
\* even when the pool is full: afterwards A occupies no Slot and is absent
\* from dataEncodings, B occupies exactly one Slot, the channel references B,
\* and the pool's size equals its value before the call.
C19_SoleChannelSwitchesAttribute ==
    \A c \in DOMAIN visual, B \in Attributes :
        LET A == visual[c].data
            r == Encodings_set(St, total, c, B)
        IN (Referencing(A) = {c} /\ B # A /\ B \notin DOMAIN data
                                 /\ SlotsOf(B) = {}) =>
              /\ r.result = "ok"
              /\ \A i \in DOMAIN r.components : r.components[i].encoding # A
              /\ A \notin DOMAIN r.data
              /\ Cardinality({i \in DOMAIN r.components :
                                 r.components[i].encoding = B}) = 1
              /\ c \in DOMAIN r.visual /\ r.visual[c].data = B
              /\ Size(r.components) = Size(components)

----------------------------------------------------------------------------
(* C20 *)

\* C20: in every state reachable by set, delete and setLegend calls, get,
\* getLegend and delete complete without raising any error for every
\* channel, set or unset, and the only error a set call can raise is the
\* capacity error for a new data attribute on a full pool, never an error
\* from a missing dataEncodings key.
C20_NoErrorButCapacity ==
    /\ call.op \in {"get", "get_legend", "delete"} => call.result = "ok"
    /\ call.op = "set" =>
          \/ call.result = "ok"
          \/ /\ call.result = "AssertionError"
             /\ Size(components) >= total
             /\ call.data_enc \notin DOMAIN data

====
